---------------------------- MODULE Spec2Model ----------------------------
(***************************************************************************)
(* Client Agreement PDF Generator.                                         *)
(*                                                                         *)
(* Two components are modelled:                                            *)
(*   - the Streamlit controller main() of app.py: one action per user      *)
(*     interaction, each of which triggers one full run of main();         *)
(*   - the document assemblers generate_pdf() of app.py and                *)
(*     generate_sample_pdf() of generate_sample.py, as operators that      *)
(*     build the "story" (the list of flowables) from their inputs, the    *)
(*     random draws of uuid.uuid4(), the clock and the environment.        *)
(*                                                                         *)
(* A text is a sequence of string pieces; the empty text is << >>.  An     *)
(* f-string is the concatenation of its pieces.                            *)
(***************************************************************************)
EXTENDS Integers, Sequences, FiniteSets, TLC

VARIABLES
    session_state,      \* st.session_state: pdf_count and the sample_* memo
    widget_default,     \* per input field: the value= the widget was created with
    widget_value,       \* per input field: the value the widget currently holds
    signature_option,   \* the radio "Signature Method:"
    signature_input,    \* what the canvas / the uploader currently holds
    sidebar,            \* the checkboxes "Include QR Code" and "Include Logo"
    view,               \* what the last run of main() rendered
    invoked,            \* the generate_pdf call of the last run: arguments, draws, environment
    sample_pressed,     \* the last run was started by "Load Sample Data"
    requests,           \* generation requests so far
    succeeded,          \* requests that ended with success panel and download
    failed,             \* requests that ended in the error panel
    now,                \* the clock, in seconds
    asm_in,             \* assembler runs: the four field values and signature
    asm_call,           \* assembler runs: the last call of generate_pdf
    script_call,        \* assembler runs: the last call of generate_sample_pdf
    returned,           \* assembler runs: file names returned by generate_pdf
    calls,              \* assembler runs: calls of generate_pdf so far
    fresh               \* assembler runs: the last call returned a new file name

ctlVars == <<session_state, widget_default, widget_value, signature_option,
             signature_input, sidebar, view, invoked, sample_pressed, requests,
             succeeded, failed>>
asmVars == <<asm_in, asm_call, script_call, returned, calls, fresh>>
vars == <<session_state, widget_default, widget_value, signature_option,
          signature_input, sidebar, view, invoked, sample_pressed, requests, succeeded,
          failed, now, asm_in, asm_call, script_call, returned, calls, fresh>>

-----------------------------------------------------------------------------
(* Bounds of the model *)

\* the clock runs over 0..MaxClock
MaxClock == 1
\* generation requests per session
MaxRequests == 2
\* calls of generate_pdf in an assembler run
MaxCalls == 2

-----------------------------------------------------------------------------
(* Texts *)

None == <<"None">>

\* str.upper() on one hexadecimal digit
UpperChar(c) ==
    CASE c = "a" -> "A" [] c = "b" -> "B" [] c = "c" -> "C"
      [] c = "d" -> "D" [] c = "e" -> "E" [] c = "f" -> "F"
      [] OTHER -> c

\* str.upper()
Upper(s) == [i \in 1..Len(s) |-> UpperChar(s[i])]

\* s[:n]
Prefix(s, n) == SubSeq(s, 1, IF Len(s) < n THEN Len(s) ELSE n)

\* the slice [:8] taken of uuid4().hex
HexPrefixLen == 8

\* uuid.uuid4().hex: the values drawn in the model.  UuidA and UuidB agree on
\* their first eight digits and differ after them; UuidC differs within them.
UuidA == <<"1", "f", "4", "e", "7", "9", "a", "0", "3", "c">>
UuidB == <<"1", "f", "4", "e", "7", "9", "a", "0", "d", "2">>
UuidC == <<"b", "2", "0", "0", "5", "d", "6", "6", "3", "c">>
UuidHex == {UuidA, UuidB, UuidC}

DigitChar == <<"0", "1", "2", "3", "4", "5", "6", "7", "8", "9">>

\* str(n) for n >= 0
RECURSIVE Dec(_)
Dec(n) == IF n < 10 THEN <<DigitChar[n + 1]>>
          ELSE Dec(n \div 10) \o <<DigitChar[(n % 10) + 1]>>

\* n as decimal digits, zero padded to w places
RECURSIVE Pad(_, _)
Pad(n, w) == IF w = 0 THEN << >>
             ELSE Pad(n \div 10, w - 1) \o <<DigitChar[(n % 10) + 1]>>

\* the ',' option of the format mini-language: groups of three digits
RECURSIVE Grouped(_)
Grouped(n) == IF n < 1000 THEN Dec(n)
              ELSE Grouped(n \div 1000) \o <<",">> \o Pad(n % 1000, 3)

\* f"{amount:,.2f}" for an amount held in cents
FormatAmount(cents) ==
    Grouped(cents \div 100) \o <<".">> \o Pad(cents % 100, 2)

SecondsPerDay == 24 * 60 * 60

\* datetime.now().strftime('%Y%m%d_%H%M%S'): one value per second
StrftimeStamp(t) ==
    <<"day">> \o Dec(t \div SecondsPerDay) \o <<"_sec">> \o Dec(t % SecondsPerDay)

\* datetime.now().strftime('%B %d, %Y'): one value per day
StrftimeDate(t) == <<"day">> \o Dec(t \div SecondsPerDay)

-----------------------------------------------------------------------------
(* The field values used in the model *)

JohnSmith == <<"John Smith">>
Alice == <<"Alice">>
SampleAddress == <<"123 Main Street", "\n", "Anytown, ST 12345", "\n", "United States">>
OtherAddress == <<"1 Elm Road">>
\* 5000.00, in cents
SampleAmount == 5000 * 100
\* 1234.56, in cents
OtherAmount == 1234 * 100 + 56
SampleNotes == <<"This agreement covers consulting services for a period of 6 months. Services include strategic planning, market analysis, and implementation support. Payment terms: 50% upfront, 50% upon completion.">>
\* notes that open a markup tag and never close it
OpenTagNotes == <<"Payment within ", "<b>", "30 days">>
\* notes with balanced markup
BoldNotes == <<"Payment within ", "<b>", "30 days", "</b>">>
ScriptNotes ==
    <<"This agreement covers comprehensive consulting services for a period of 6 months. ",
      "Services include strategic planning, market analysis, competitive research, and implementation support. ",
      "Deliverables include: Monthly strategic reports, Market analysis documentation, Implementation roadmap, Ongoing consultation sessions. ",
      "Payment terms: 50% upfront payment required, remaining 50% due upon project completion. ",
      "All work will be completed according to the agreed timeline and quality standards.">>

DrawnPixels == <<"canvas image_data">>
UploadedImage == <<"uploaded file">>

-----------------------------------------------------------------------------
(* The flowables of the story *)

\* what: a text naming the picture
RLImage(what, hAlign) == [kind |-> "Image", what |-> what, hAlign |-> hAlign]
Spacer(h) == [kind |-> "Spacer", height |-> h]
Paragraph(text, style) == [kind |-> "Paragraph", text |-> text, style |-> style]
Table(rows, style) == [kind |-> "Table", rows |-> rows, style |-> style]

\* The paragraph parser of the layout library reads its text as markup: a
\* text whose tags are not properly nested is rejected with ValueError.
RECURSIVE TagDepth(_, _)
TagDepth(text, depth) ==
    IF depth < 0 THEN depth
    ELSE IF text = << >> THEN depth
    ELSE TagDepth(Tail(text),
                  CASE Head(text) = "<b>" -> depth + 1
                    [] Head(text) = "</b>" -> depth - 1
                    [] OTHER -> depth)

ParagraphParses(text) == TagDepth(text, 0) = 0

standard_terms == <<"This agreement constitutes the entire agreement between the parties and supersedes all prior negotiations, representations, or agreements relating to the subject matter herein. This agreement shall be governed by the laws of the applicable jurisdiction. Any modifications to this agreement must be made in writing and signed by both parties.">>

-----------------------------------------------------------------------------
(* generate_pdf of app.py *)

\* f"agreement_{uuid.uuid4().hex[:8]}_{datetime.now().strftime(...)}.pdf"
FileName(u, t) ==
    <<"agreement_">> \o Prefix(u, HexPrefixLen) \o <<"_">> \o StrftimeStamp(t)
        \o <<".pdf">>

FilePath(temp_dir, filename) == temp_dir \o <<"/">> \o filename

\* f"AGR-{uuid.uuid4().hex[:8].upper()}"
AgreementId(u) == <<"AGR-">> \o Upper(Prefix(u, HexPrefixLen))

\* the amount written without the ',' option: f"${agreement_amount:.2f}"
AmountTextUngrouped(agreement_amount) ==
    <<"$">> \o Dec(agreement_amount \div 100) \o <<".">>
        \o Pad(agreement_amount % 100, 2)

\* f"${agreement_amount:,.2f}"
AmountText(agreement_amount) == <<"$">> \o FormatAmount(agreement_amount)

\* the logo try block: both appends happen, or the handler reports the error
LogoBlocks(env) ==
    IF env.logo_fails THEN << >>
    ELSE <<RLImage(<<"logo">>, "CENTER"), Spacer(20)>>

TitleBlocks ==
    <<Paragraph(<<"CLIENT SERVICE AGREEMENT">>, "title"), Spacer(30)>>

\* the agreement details table; id_text is the text of the "Agreement ID:" row
AgreementTable(client_name, client_address, agreement_amount, id_text, t) ==
    Table(<< <<"Agreement Date:", StrftimeDate(t)>>,
             <<"Client Name:", client_name>>,
             <<"Client Address:", client_address>>,
             <<"Agreement Amount:", AmountText(agreement_amount)>>,
             <<"Agreement ID:", id_text>> >>, "agreement")

TermsBlocks(notes_terms) ==
    <<Paragraph(<<"TERMS AND CONDITIONS">>, "heading"),
      Paragraph(notes_terms, "normal"), Spacer(30)>>

ProvisionsBlocks ==
    <<Paragraph(<<"STANDARD PROVISIONS">>, "heading"),
      Paragraph(standard_terms, "normal"), Spacer(40)>>

\* the signature block with the collected signature drawn into its cell
SignatureTableEmbedding(client_name, signature_data, t) ==
    Table(<< <<"Client Signature:",
               IF signature_data = None THEN << >> ELSE signature_data>>,
             <<"Date:", StrftimeDate(t)>>,
             <<"Print Name:", client_name>> >>, "signature")

\* the signature block; signature_data is not used by it
SignatureTable(client_name, signature_data, t) ==
    Table(<< <<"Client Signature:", << >> >>,
             <<"Date:", StrftimeDate(t)>>,
             <<"Print Name:", client_name>> >>, "signature")

SignatureBlocks(client_name, signature_data, t) ==
    <<SignatureTable(client_name, signature_data, t), Spacer(30)>>

\* the verification string encoded in the QR code; id_text is its identifier
QrText(id_text, client_name, agreement_amount) ==
    <<"Agreement ID: ">> \o id_text \o <<"\n", "Client: ">> \o client_name
        \o <<"\n", "Amount: ">> \o AmountText(agreement_amount)

\* the QR try block: image and caption are appended, or the handler reports
QrBlocks(env, qr_text) ==
    IF env.qr_fails THEN << >>
    ELSE <<RLImage(<<"qr: ">> \o qr_text, "RIGHT"),
           Paragraph(<<"Scan QR code for verification">>, "QRCaption")>>

\* the identifier of the metadata table: the second draw of the call
TableId(rnd) == AgreementId(rnd[2])

\* the identifier of the QR text copied from the metadata table
QrIdOfTable(rnd) == AgreementId(rnd[2])

\* the identifier of the QR text: the third draw of the call
QrId(rnd) == AgreementId(rnd[3])

\* the story generate_pdf hands to doc.build
Story(client_name, client_address, agreement_amount, notes_terms, signature_data, rnd, t, env) ==
    LogoBlocks(env)
      \o TitleBlocks
      \o <<AgreementTable(client_name, client_address, agreement_amount,
                          TableId(rnd), t), Spacer(30)>>
      \o TermsBlocks(notes_terms)
      \o ProvisionsBlocks
      \o SignatureBlocks(client_name, signature_data, t)
      \o QrBlocks(env, QrText(QrId(rnd), client_name, agreement_amount))

\* what st.error reported from the two handlers
AppWarnings(env) ==
    (IF env.logo_fails THEN << <<"Error adding logo: ", "cannot build image">> >>
     ELSE << >>)
    \o (IF env.qr_fails THEN << <<"Error adding QR code: ", "cannot build image">> >>
        ELSE << >>)

TempDir == <<"tmp/client_agreements">>

Raised(message, warnings) ==
    [raised |-> TRUE, error |-> message, filepath |-> None, filename |-> None,
     story |-> << >>, warnings |-> warnings, built |-> FALSE, written |-> FALSE]

\* The environment of one call: whether os.makedirs, the logo construction,
\* the QR construction and the write of doc.build fail.
NoFault == [makedirs_fails |-> FALSE, logo_fails |-> FALSE, qr_fails |-> FALSE,
            build_fails |-> FALSE]

\* generate_pdf without the two handlers: a failing asset ends the call
GeneratePdfAssetsAbort(client_name, client_address, agreement_amount, notes_terms, signature_data, rnd, t, env) ==
    IF env.makedirs_fails
    THEN Raised(<<"[Errno 13] Permission denied: ">> \o TempDir, << >>)
    ELSE IF env.logo_fails \/ env.qr_fails
    THEN Raised(<<"cannot build image">>, << >>)
    ELSE IF ~ParagraphParses(notes_terms)
    THEN Raised(<<"xml parser error in paragraph beginning ">> \o notes_terms, << >>)
    ELSE IF env.build_fails
    THEN Raised(<<"[Errno 28] No space left on device">>, << >>)
    ELSE [raised |-> FALSE, error |-> None,
          filepath |-> FilePath(TempDir, FileName(rnd[1], t)),
          filename |-> FileName(rnd[1], t),
          story |-> Story(client_name, client_address, agreement_amount,
                          notes_terms, signature_data, rnd, t, env),
          warnings |-> << >>, built |-> TRUE, written |-> TRUE]

\* generate_pdf: rnd holds the three draws of uuid4().hex in call order, t the
\* clock (the three datetime.now() of one call read the same second).
GeneratePdf(client_name, client_address, agreement_amount, notes_terms, signature_data, rnd, t, env) ==
    IF env.makedirs_fails
    THEN Raised(<<"[Errno 13] Permission denied: ">> \o TempDir, << >>)
    ELSE IF ~ParagraphParses(notes_terms)
    THEN Raised(<<"xml parser error in paragraph beginning ">> \o notes_terms,
                IF env.logo_fails THEN SubSeq(AppWarnings(env), 1, 1) ELSE << >>)
    ELSE IF env.build_fails
    THEN Raised(<<"[Errno 28] No space left on device">>, AppWarnings(env))
    ELSE [raised |-> FALSE, error |-> None,
          filepath |-> FilePath(TempDir, FileName(rnd[1], t)),
          filename |-> FileName(rnd[1], t),
          story |-> Story(client_name, client_address, agreement_amount,
                          notes_terms, signature_data, rnd, t, env),
          warnings |-> AppWarnings(env), built |-> TRUE, written |-> TRUE]

-----------------------------------------------------------------------------
(* generate_sample_pdf of generate_sample.py *)

\* the story of the script: one agreement_id, drawn once, in table and QR text
ScriptStory(client_name, client_address, agreement_amount, notes_terms, agreement_id, t, env) ==
    LogoBlocks(env)
      \o TitleBlocks
      \o <<AgreementTable(client_name, client_address, agreement_amount,
                          agreement_id, t), Spacer(30)>>
      \o TermsBlocks(notes_terms)
      \o ProvisionsBlocks
      \o SignatureBlocks(client_name, None, t)
      \o QrBlocks(env, QrText(agreement_id, client_name, agreement_amount))

\* what the script printed from the two handlers
ScriptWarnings(env) ==
    (IF env.logo_fails THEN << <<"Warning: Could not add logo: ", "cannot build image">> >>
     ELSE << >>)
    \o (IF env.qr_fails THEN << <<"Warning: Could not add QR code: ", "cannot build image">> >>
        ELSE << >>)

ScriptOutputDir == <<"sample_output">>
ScriptFileName == <<"sample_agreement.pdf">>

\* generate_sample_pdf: the field values are fixed in its body; u is its one
\* draw of uuid4().hex
GenerateSamplePdf(u, t, env) ==
    IF env.makedirs_fails
    THEN Raised(<<"[Errno 13] Permission denied: ">> \o ScriptOutputDir, << >>)
    ELSE IF ~ParagraphParses(ScriptNotes)
    THEN Raised(<<"xml parser error in paragraph beginning ">> \o ScriptNotes,
                IF env.logo_fails THEN SubSeq(ScriptWarnings(env), 1, 1) ELSE << >>)
    ELSE IF env.build_fails
    THEN Raised(<<"[Errno 28] No space left on device">>, ScriptWarnings(env))
    ELSE [raised |-> FALSE, error |-> None,
          filepath |-> FilePath(ScriptOutputDir, ScriptFileName),
          filename |-> ScriptFileName,
          story |-> ScriptStory(JohnSmith, SampleAddress, SampleAmount, ScriptNotes,
                                AgreementId(u), t, env),
          warnings |-> ScriptWarnings(env), built |-> TRUE, written |-> TRUE]

-----------------------------------------------------------------------------
(* main of app.py: one run of the script *)

\* st.session_state.get(key, default)
SessionGet(ss, key, default) == IF key \in ss.keys THEN ss[key] ELSE default

\* An input widget given value= and no key.  The widget is identified by its
\* arguments, value= among them: while value= is what it was on the last run
\* the widget keeps the value it holds; when value= differs a new widget is
\* made, holding value=.
WidgetValue(default_was, value_was, value_param) ==
    IF value_param = default_was THEN value_was ELSE value_param

\* the signature section: signature_data as main computes it
SignatureData(option, input) ==
    IF option = "Draw Signature" /\ input # None THEN input
    ELSE IF option = "Upload Image" /\ input # None THEN input
    ELSE None

\* the validity predicate with the amount test weakened to >= 0
IsValidZeroAmount(client_name, client_address, agreement_amount, notes_terms) ==
    /\ client_name # << >>
    /\ client_address # << >>
    /\ agreement_amount >= 0
    /\ notes_terms # << >>

\* all([client_name, client_address, agreement_amount > 0, notes_terms])
IsValid(client_name, client_address, agreement_amount, notes_terms) ==
    /\ client_name # << >>
    /\ client_address # << >>
    /\ agreement_amount > 0
    /\ notes_terms # << >>

NotInvoked == [called |-> FALSE]

\* the sample-data button: st.session_state.update({...})
LoadSample(ss) ==
    [ss EXCEPT !.keys = @ \cup {"sample_client_name", "sample_client_address",
                                 "sample_agreement_amount", "sample_notes_terms"},
               !.sample_client_name = JohnSmith,
               !.sample_client_address = SampleAddress,
               !.sample_agreement_amount = SampleAmount,
               !.sample_notes_terms = SampleNotes]

\* the generate button with the read-back outside the handler's reach: a
\* failed read-back leaves the success panel and the download in place
GenerateClickedReadUnchecked(pdf_count, res, env) ==
    IF res.raised
    THEN [pdf_count |-> pdf_count, success_file |-> None, download |-> None,
          pdf_data |-> << >>, error |-> res.error]
    ELSE [pdf_count |-> pdf_count + 1, success_file |-> res.filename,
          download |-> res.filename, pdf_data |-> res.story, error |-> None]

\* the call in the button body with the two checkboxes honoured: the asset
\* of an unchecked box is left out of the story
GeneratePdfCallHonouringBoxes(client_name, client_address, agreement_amount, notes_terms, signature_data, include_qr, include_logo, rnd, t, env) ==
    GeneratePdf(client_name, client_address, agreement_amount, notes_terms,
                signature_data, rnd, t,
                [env EXCEPT !.logo_fails = @ \/ ~include_logo,
                            !.qr_fails = @ \/ ~include_qr])

\* The call of generate_pdf in the button body: the five field values are
\* passed; include_qr and include_logo, read from the sidebar, are not.
GeneratePdfCall(client_name, client_address, agreement_amount, notes_terms, signature_data, include_qr, include_logo, rnd, t, env) ==
    GeneratePdf(client_name, client_address, agreement_amount, notes_terms,
                signature_data, rnd, t, env)

\* The body of the generate button: the try block around generate_pdf, the
\* counter, the success panel, the read-back and the download button, and the
\* handler.  Gives the counter and the panels; pdf_data is what the download
\* button is given, the content of the file read back.
GenerateClicked(pdf_count, res, env) ==
    IF res.raised
    THEN [pdf_count |-> pdf_count, success_file |-> None, download |-> None,
          pdf_data |-> << >>, error |-> res.error]
    ELSE IF env.read_fails
    THEN [pdf_count |-> pdf_count + 1, success_file |-> res.filename,
          download |-> None, pdf_data |-> << >>,
          error |-> <<"[Errno 2] No such file or directory: ">> \o res.filepath]
    ELSE [pdf_count |-> pdf_count + 1, success_file |-> res.filename,
          download |-> res.filename, pdf_data |-> res.story, error |-> None]

NoPanels(pdf_count) ==
    [pdf_count |-> pdf_count, success_file |-> None, download |-> None,
     pdf_data |-> << >>, error |-> None]

\* One run of main().  ss, wd, wv: the session state and the widgets before
\* the run; include_qr, include_logo: the sidebar checkboxes; clicked: whether the generate button reports a click; rnd, t, env:
\* the draws, the clock and the environment of the generate_pdf call.
Main(ss, wd, wv, option, input, include_qr, include_logo, clicked, rnd, t, env) ==
    LET ss1 == IF "pdf_count" \in ss.keys THEN ss
               ELSE [ss EXCEPT !.keys = @ \cup {"pdf_count"}, !.pdf_count = 0]
        metric == ss1.pdf_count
        p_name == SessionGet(ss1, "sample_client_name", << >>)
        p_address == SessionGet(ss1, "sample_client_address", << >>)
        p_amount == SessionGet(ss1, "sample_agreement_amount", 0)
        p_notes == SessionGet(ss1, "sample_notes_terms", << >>)
        client_name == WidgetValue(wd.client_name, wv.client_name, p_name)
        client_address == WidgetValue(wd.client_address, wv.client_address, p_address)
        agreement_amount == WidgetValue(wd.agreement_amount, wv.agreement_amount, p_amount)
        notes_terms == WidgetValue(wd.notes_terms, wv.notes_terms, p_notes)
        signature_data == SignatureData(option, input)
        is_valid == IsValid(client_name, client_address, agreement_amount, notes_terms)
        res == GeneratePdfCall(client_name, client_address, agreement_amount,
                               notes_terms, signature_data, include_qr,
                               include_logo, rnd, t, env)
        panels == IF clicked THEN GenerateClicked(ss1.pdf_count, res, env)
                  ELSE NoPanels(ss1.pdf_count)
    IN  [session_state |-> [ss1 EXCEPT !.pdf_count = panels.pdf_count],
         widget_default |-> [client_name |-> p_name, client_address |-> p_address,
                             agreement_amount |-> p_amount, notes_terms |-> p_notes],
         widget_value |-> [client_name |-> client_name,
                           client_address |-> client_address,
                           agreement_amount |-> agreement_amount,
                           notes_terms |-> notes_terms],
         view |-> [metric |-> metric,
                   warning |-> ~is_valid,
                   all_completed |-> is_valid,
                   generate_disabled |-> ~is_valid,
                   success_file |-> panels.success_file,
                   download |-> panels.download,
                   pdf_data |-> panels.pdf_data,
                   error |-> panels.error],
         invoked |-> IF clicked
                     THEN [called |-> TRUE, client_name |-> client_name,
                           client_address |-> client_address,
                           agreement_amount |-> agreement_amount,
                           notes_terms |-> notes_terms,
                           signature_data |-> signature_data,
                           rnd |-> rnd, t |-> t, env |-> env]
                     ELSE NotInvoked]

-----------------------------------------------------------------------------
(* The session: user interactions, each followed by a run of main() *)

EmptySession ==
    [keys |-> {}, pdf_count |-> 0, sample_client_name |-> << >>,
     sample_client_address |-> << >>, sample_agreement_amount |-> 0,
     sample_notes_terms |-> << >>]

BlankWidgets ==
    [client_name |-> << >>, client_address |-> << >>, agreement_amount |-> 0,
     notes_terms |-> << >>]

\* what the user can put into each field
FieldChoices ==
    [client_name |-> {<< >>, JohnSmith, Alice},
     client_address |-> {<< >>, SampleAddress},
     agreement_amount |-> {0, SampleAmount, OtherAmount},
     notes_terms |-> {<< >>, SampleNotes, OpenTagNotes}]

Fields == {"client_name", "client_address", "agreement_amount", "notes_terms"}

SignatureChoices ==
    {<<"None", None>>, <<"Draw Signature", None>>, <<"Draw Signature", DrawnPixels>>,
     <<"Upload Image", None>>, <<"Upload Image", UploadedImage>>}

\* The three draws of one call.  The session sees of them only the file name:
\* its requests vary the first draw.  The assembler runs vary the first and
\* the third: the second and third are equal, or differ after the eighth
\* digit, or differ within the first eight.
SessionDraws == {<<u, UuidB, UuidC>> : u \in UuidHex}
AsmDraws == {<<u, UuidA, w>> : u \in UuidHex, w \in UuidHex}

\* the environments of a generation request: at most one thing fails
CtlEnvs ==
    {[makedirs_fails |-> m, logo_fails |-> l, qr_fails |-> q, build_fails |-> b,
      read_fails |-> r] :
        <<m, l, q, b, r>> \in
            {<<FALSE, FALSE, FALSE, FALSE, FALSE>>, <<TRUE, FALSE, FALSE, FALSE, FALSE>>,
             <<FALSE, TRUE, FALSE, FALSE, FALSE>>, <<FALSE, FALSE, TRUE, FALSE, FALSE>>,
             <<FALSE, FALSE, FALSE, TRUE, FALSE>>, <<FALSE, FALSE, FALSE, FALSE, TRUE>>}}

\* st.checkbox(..., value=True): both boxes start checked
AllChecked == [include_qr |-> TRUE, include_logo |-> TRUE]

CalmEnv == [makedirs_fails |-> FALSE, logo_fails |-> FALSE, qr_fails |-> FALSE,
            build_fails |-> FALSE, read_fails |-> FALSE]

FirstRun == Main(EmptySession, BlankWidgets, BlankWidgets, "None", None,
                 AllChecked.include_qr, AllChecked.include_logo, FALSE,
                 <<UuidA, UuidA, UuidA>>, 0, CalmEnv)

NoCall == [called |-> FALSE]

AsmIdle ==
    /\ asm_in = [client_name |-> JohnSmith, client_address |-> SampleAddress,
                 agreement_amount |-> SampleAmount, notes_terms |-> SampleNotes,
                 signature_data |-> None]
    /\ asm_call = NoCall
    /\ script_call = NoCall
    /\ returned = {}
    /\ calls = 0
    /\ fresh = TRUE

Init ==
    /\ session_state = FirstRun.session_state
    /\ widget_default = FirstRun.widget_default
    /\ widget_value = FirstRun.widget_value
    /\ signature_option = "None"
    /\ signature_input = None
    /\ sidebar = AllChecked
    /\ view = FirstRun.view
    /\ invoked = FirstRun.invoked
    /\ sample_pressed = FALSE
    /\ requests = 0
    /\ succeeded = 0
    /\ failed = 0
    /\ now = 0
    /\ AsmIdle

\* the state after the run r of main()
Shown(r) ==
    \E run \in {r} :
        /\ session_state' = run.session_state
        /\ widget_default' = run.widget_default
        /\ widget_value' = run.widget_value
        /\ view' = run.view
        /\ invoked' = run.invoked

\* the state after a run r that Load Sample Data did not start
Rendered(r) == Shown(r) /\ sample_pressed' = FALSE

\* the user changes one input field
EditField ==
    \E f \in Fields : \E v \in FieldChoices[f] :
        /\ v # widget_value[f]
        /\ Rendered(Main(session_state, widget_default,
                         [widget_value EXCEPT ![f] = v], signature_option,
                         signature_input, sidebar.include_qr,
                         sidebar.include_logo, FALSE, <<UuidA, UuidA, UuidA>>,
                         now, CalmEnv))
        /\ UNCHANGED <<sidebar, signature_option, signature_input, requests, succeeded,
                       failed, now, asmVars>>

\* the user changes the signature method, draws or uploads
EditSignature ==
    \E c \in SignatureChoices :
        /\ c # <<signature_option, signature_input>>
        /\ signature_option' = c[1]
        /\ signature_input' = c[2]
        /\ Rendered(Main(session_state, widget_default, widget_value, c[1], c[2],
                         sidebar.include_qr, sidebar.include_logo, FALSE,
                         <<UuidA, UuidA, UuidA>>, now, CalmEnv))
        /\ UNCHANGED <<sidebar, requests, succeeded, failed, now, asmVars>>

\* the user checks or unchecks one of the sidebar checkboxes
ToggleCheckbox ==
    \E box \in {"include_qr", "include_logo"} :
        /\ sidebar' = [sidebar EXCEPT ![box] = ~@]
        /\ Rendered(Main(session_state, widget_default, widget_value,
                         signature_option, signature_input, sidebar'.include_qr,
                         sidebar'.include_logo, FALSE, <<UuidA, UuidA, UuidA>>,
                         now, CalmEnv))
        /\ UNCHANGED <<signature_option, signature_input, requests, succeeded,
                       failed, now, asmVars>>

\* a run that no widget caused (a reload of the view)
Rerender ==
    /\ Rendered(Main(session_state, widget_default, widget_value,
                     signature_option, signature_input, sidebar.include_qr,
                     sidebar.include_logo, FALSE,
                     <<UuidA, UuidA, UuidA>>, now, CalmEnv))
    /\ UNCHANGED <<sidebar, signature_option, signature_input, requests, succeeded,
                   failed, now, asmVars>>

\* the user presses "Generate PDF Agreement", which the last run left enabled
ClickGenerate ==
    /\ ~view.generate_disabled
    /\ requests < MaxRequests
    /\ \E rnd \in SessionDraws : \E env \in CtlEnvs :
         LET r == Main(session_state, widget_default, widget_value,
                       signature_option, signature_input, sidebar.include_qr,
                       sidebar.include_logo, TRUE, rnd, now, env)
         IN  /\ Rendered(r)
             /\ requests' = requests + 1
             /\ succeeded' = IF view'.success_file # None /\ view'.download # None
                             THEN succeeded + 1 ELSE succeeded
             /\ failed' = IF view'.error # None THEN failed + 1 ELSE failed
    /\ UNCHANGED <<sidebar, signature_option, signature_input, now, asmVars>>

\* the user presses "Load Sample Data": the memo is written and st.rerun()
\* starts the run that renders it
ClickLoadSample ==
    /\ sample_pressed' = TRUE
    /\ Shown(Main(LoadSample(session_state), widget_default, widget_value,
                  signature_option, signature_input, sidebar.include_qr,
                  sidebar.include_logo, FALSE,
                  <<UuidA, UuidA, UuidA>>, now, CalmEnv))
    /\ UNCHANGED <<sidebar, signature_option, signature_input, requests, succeeded,
                   failed, now, asmVars>>

Next ==
    \/ EditField
    \/ EditSignature
    \/ ToggleCheckbox
    \/ Rerender
    \/ ClickGenerate
    \/ ClickLoadSample

Spec == Init /\ [][Next]_vars

-----------------------------------------------------------------------------
(* Assembler runs: generate_pdf called directly, on fixed field values *)

AsmInputs ==
    {[client_name |-> c[1], client_address |-> c[2], agreement_amount |-> c[3],
      notes_terms |-> n, signature_data |-> s] :
        c \in {<<JohnSmith, SampleAddress, SampleAmount>>,
               <<Alice, OtherAddress, OtherAmount>>},
        n \in {SampleNotes, OpenTagNotes, BoldNotes},
        s \in {None, DrawnPixels, UploadedImage}}

\* the environments of a call: the two assets fail or not; or the directory
\* cannot be made; or the write fails
AsmEnvs ==
    {[makedirs_fails |-> FALSE, logo_fails |-> l, qr_fails |-> q,
      build_fails |-> FALSE] : l \in BOOLEAN, q \in BOOLEAN}
    \cup {[NoFault EXCEPT !.makedirs_fails = TRUE],
          [NoFault EXCEPT !.build_fails = TRUE]}

SessionIdle ==
    /\ session_state = FirstRun.session_state
    /\ widget_default = FirstRun.widget_default
    /\ widget_value = FirstRun.widget_value
    /\ signature_option = "None"
    /\ signature_input = None
    /\ sidebar = AllChecked
    /\ view = FirstRun.view
    /\ invoked = FirstRun.invoked
    /\ sample_pressed = FALSE
    /\ requests = 0
    /\ succeeded = 0
    /\ failed = 0

AsmInit ==
    /\ SessionIdle
    /\ now = 0
    /\ asm_in \in AsmInputs
    /\ asm_call = NoCall
    /\ script_call = NoCall
    /\ returned = {}
    /\ calls = 0
    /\ fresh = TRUE

\* one call of generate_pdf on the field values of the run
CallGeneratePdf ==
    /\ calls < MaxCalls
    /\ calls' = calls + 1
    /\ \E rnd \in AsmDraws : \E env \in AsmEnvs :
         asm_call' = [called |-> TRUE, rnd |-> rnd, t |-> now, env |-> env,
                      res |-> GeneratePdf(asm_in.client_name, asm_in.client_address,
                                          asm_in.agreement_amount, asm_in.notes_terms,
                                          asm_in.signature_data, rnd, now, env)]
    /\ fresh' = (asm_call'.res.raised \/ asm_call'.res.filename \notin returned)
    /\ returned' = IF asm_call'.res.raised THEN returned
                   ELSE returned \cup {asm_call'.res.filename}
    /\ UNCHANGED <<ctlVars, now, asm_in, script_call>>

\* a second passes
Tick ==
    /\ now < MaxClock
    /\ now' = now + 1
    /\ UNCHANGED <<ctlVars, asmVars>>

AsmNext ==
    \/ CallGeneratePdf
    \/ Tick

AsmSpec == AsmInit /\ [][AsmNext]_vars

-----------------------------------------------------------------------------
(* Side by side: generate_pdf and generate_sample_pdf on the script's values *)

ScriptInputs ==
    [client_name |-> JohnSmith, client_address |-> SampleAddress,
     agreement_amount |-> SampleAmount, notes_terms |-> ScriptNotes,
     signature_data |-> None]

DupInit ==
    /\ SessionIdle
    /\ now = 0
    /\ asm_in = ScriptInputs
    /\ asm_call = NoCall
    /\ script_call = NoCall
    /\ returned = {}
    /\ calls = 0
    /\ fresh = TRUE

\* one run of the script
CallGenerateSamplePdf ==
    /\ \E u \in UuidHex : \E env \in AsmEnvs :
         script_call' = [called |-> TRUE, u |-> u, t |-> now, env |-> env,
                         res |-> GenerateSamplePdf(u, now, env)]
    /\ UNCHANGED <<ctlVars, now, asm_in, asm_call, returned, calls, fresh>>

\* one call of generate_pdf beside the script
RecallGeneratePdf ==
    /\ \E rnd \in AsmDraws : \E env \in AsmEnvs :
         asm_call' = [called |-> TRUE, rnd |-> rnd, t |-> now, env |-> env,
                      res |-> GeneratePdf(asm_in.client_name, asm_in.client_address,
                                          asm_in.agreement_amount, asm_in.notes_terms,
                                          asm_in.signature_data, rnd, now, env)]
    /\ UNCHANGED <<ctlVars, now, asm_in, script_call, returned, calls, fresh>>

DupNext ==
    \/ RecallGeneratePdf
    \/ CallGenerateSamplePdf

DupSpec == DupInit /\ [][DupNext]_vars

-----------------------------------------------------------------------------
(* Amounts: generate_pdf called on a range of valid amounts *)

\* amounts in cents: below one unit, below and at a thousand, with and
\* without cents, a million and above
AmountChoices ==
    {1, 5, 99, 100, 705, 99999, 100000, 100001, SampleAmount, OtherAmount,
     99999999, 1000000 * 100, 1000000 * 100 + 5, 1234567 * 100 + 89}

AmountInputs ==
    {[client_name |-> JohnSmith, client_address |-> SampleAddress,
      agreement_amount |-> a, notes_terms |-> SampleNotes,
      signature_data |-> None] : a \in AmountChoices}

AmountInit ==
    /\ SessionIdle
    /\ now = 0
    /\ asm_in \in AmountInputs
    /\ asm_call = NoCall
    /\ script_call = NoCall
    /\ returned = {}
    /\ calls = 0
    /\ fresh = TRUE

AmountNext == RecallGeneratePdf

AmountSpec == AmountInit /\ [][AmountNext]_vars

-----------------------------------------------------------------------------
(* Properties *)

\* the generate_pdf call of the last run of main(), evaluated again
InvokedResult ==
    GeneratePdf(invoked.client_name, invoked.client_address,
                invoked.agreement_amount, invoked.notes_terms,
                invoked.signature_data, invoked.rnd, invoked.t, invoked.env)

FieldsComplete ==
    /\ Len(widget_value.client_name) > 0
    /\ Len(widget_value.client_address) > 0
    /\ widget_value.agreement_amount > 0
    /\ Len(widget_value.notes_terms) > 0

\* C1: in every run of main() the validity predicate is true exactly when the
\* name, the address and the notes are non-empty and the amount is above
\* zero; the generate button is disabled, and the warning shown, whenever it
\* is false; generate_pdf is never invoked with a required field empty or
\* with an amount <= 0.
C1_ValidityGuardsGenerate ==
    /\ view.all_completed <=> FieldsComplete
    /\ view.generate_disabled <=> ~FieldsComplete
    /\ view.warning <=> ~FieldsComplete
    /\ invoked.called =>
         /\ invoked.client_name # << >>
         /\ invoked.client_address # << >>
         /\ invoked.agreement_amount > 0
         /\ invoked.notes_terms # << >>

\* C1 witness: generate_pdf has been invoked, and the button is enabled
C1_Witness == invoked.called /\ ~view.generate_disabled /\ FieldsComplete

\* C1 witness of the other side: a run that left the button disabled because
\* only the amount is zero
C1_WitnessDisabled ==
    /\ view.generate_disabled
    /\ widget_value.client_name # << >>
    /\ widget_value.agreement_amount = 0

\* C2: when generate_pdf or the read-back of its file raises, the run shows
\* the error panel with the message of the error and no download button; the
\* run ends normally (its view is rendered), and after a failed request valid
\* fields still leave the generate button enabled.
C2_FailureIsCaught ==
    /\ invoked.called /\ InvokedResult.raised =>
         /\ view.error = InvokedResult.error
         /\ view.download = None
         /\ view.success_file = None
    /\ invoked.called /\ ~InvokedResult.raised /\ invoked.env.read_fails =>
         /\ view.error # None
         /\ view.error[1] = "[Errno 2] No such file or directory: "
         /\ view.download = None
    /\ invoked.called /\ view.error = None =>
         ~InvokedResult.raised /\ ~invoked.env.read_fails
    /\ failed > 0 /\ FieldsComplete => ~view.generate_disabled

\* C2 witness: a request failed earlier in the session, and the request of
\* this run succeeded and offers its download
C2_Witness ==
    /\ failed > 0
    /\ invoked.called
    /\ view.error = None
    /\ view.download # None

\* C2 witness: the read-back failed in this run
C2_WitnessReadBack ==
    invoked.called /\ invoked.env.read_fails /\ view.error # None

\* C3: pdf_count equals the number of generation requests that ended with the
\* success panel and the download offered.
C3_CountEqualsSuccesses == session_state.pdf_count = succeeded

\* C3 witness: a request ended with the success panel and the download, and
\* the counter stands at one
C3_Witness == succeeded = 1 /\ session_state.pdf_count = 1 /\ view.download # None

\* C3: a request that ends in the error panel leaves pdf_count unchanged
C3_ErrorLeavesCount ==
    [][failed' > failed => session_state'.pdf_count = session_state.pdf_count]_vars

\* C3, what does hold: pdf_count counts the requests in which generate_pdf
\* returned, whether or not the read-back then failed
C3_CountsReturnedCalls ==
    /\ succeeded <= session_state.pdf_count
    /\ session_state.pdf_count <= requests
    /\ session_state.pdf_count + failed >= requests

-----------------------------------------------------------------------------
(* Properties of the assembler *)

AsmReturned == asm_call.called /\ ~asm_call.res.raised

\* the story of the last call had neither asset failed
FullStory ==
    Story(asm_in.client_name, asm_in.client_address, asm_in.agreement_amount,
          asm_in.notes_terms, asm_in.signature_data, asm_call.rnd, asm_call.t,
          NoFault)

\* the last call met an asset failure and nothing else: the directory and the
\* write are fine and the notes are text the paragraph parser accepts
AssetFailureOnly ==
    /\ asm_call.called
    /\ asm_call.env.logo_fails \/ asm_call.env.qr_fails
    /\ ~asm_call.env.makedirs_fails
    /\ ~asm_call.env.build_fails
    /\ ParagraphParses(asm_in.notes_terms)

IsLogoImage(b) == b.kind = "Image" /\ b.hAlign = "CENTER"
IsQrImage(b) == b.kind = "Image" /\ b.hAlign = "RIGHT"
IsQrCaption(b) == b.kind = "Paragraph" /\ b.style = "QRCaption"
IsLogoSpacer(b) == b.kind = "Spacer" /\ b.height = 20
IsText(b) == b.kind \in {"Paragraph", "Table"} /\ ~IsQrCaption(b)

\* title, metadata table, terms heading and notes, provisions heading and
\* boilerplate, signature block: what any returned story holds, in order
FixedBlocks ==
    <<Paragraph(<<"CLIENT SERVICE AGREEMENT">>, "title"),
      Table(<< <<"Agreement Date:", StrftimeDate(asm_call.t)>>,
               <<"Client Name:", asm_in.client_name>>,
               <<"Client Address:", asm_in.client_address>>,
               <<"Agreement Amount:", <<"$">> \o FormatAmount(asm_in.agreement_amount)>>,
               <<"Agreement ID:", AgreementId(asm_call.rnd[2])>> >>, "agreement"),
      Paragraph(<<"TERMS AND CONDITIONS">>, "heading"),
      Paragraph(asm_in.notes_terms, "normal"),
      Paragraph(<<"STANDARD PROVISIONS">>, "heading"),
      Paragraph(standard_terms, "normal"),
      Table(<< <<"Client Signature:", << >> >>,
               <<"Date:", StrftimeDate(asm_call.t)>>,
               <<"Print Name:", asm_in.client_name>> >>, "signature")>>

AssetFailureIsSurvived ==
    /\ ~asm_call.res.raised
    /\ asm_call.res.built
    /\ asm_call.res.filename = FileName(asm_call.rnd[1], asm_call.t)
    /\ asm_call.res.filepath = TempDir \o <<"/">> \o asm_call.res.filename
    /\ SelectSeq(asm_call.res.story, IsText) = FixedBlocks

\* C4 as claimed: a failure of the logo or of the QR code is caught, the fixed
\* blocks are all in the story in order, doc.build is reached, the call
\* returns, and only the failed image is missing from the story.
C4_OnlyFailedImageMissing ==
    AssetFailureOnly =>
        /\ AssetFailureIsSurvived
        /\ LET env == asm_call.env
               Kept(b) == ~(env.logo_fails /\ IsLogoImage(b))
                          /\ ~(env.qr_fails /\ IsQrImage(b))
           IN  asm_call.res.story = SelectSeq(FullStory, Kept)

\* C4 as amended: the same, but what is missing is everything the failed try
\* block appends: the logo with the spacer under it, the QR image with its
\* caption.
C4_FailedAssetBlocksMissing ==
    AssetFailureOnly =>
        /\ AssetFailureIsSurvived
        /\ LET env == asm_call.env
               Kept(b) == ~(env.logo_fails /\ (IsLogoImage(b) \/ IsLogoSpacer(b)))
                          /\ ~(env.qr_fails /\ (IsQrImage(b) \/ IsQrCaption(b)))
           IN  asm_call.res.story = SelectSeq(FullStory, Kept)

\* C4 witness: the QR code failed, the call returned, and its story has the
\* logo but no QR image
C4_Witness ==
    /\ AssetFailureOnly
    /\ asm_call.env.qr_fails
    /\ ~asm_call.env.logo_fails
    /\ ~asm_call.res.raised
    /\ SelectSeq(asm_call.res.story, IsQrImage) = << >>
    /\ SelectSeq(asm_call.res.story, IsLogoImage) # << >>

\* C4 witness: the logo failed, the call returned
C4_WitnessLogo ==
    AssetFailureOnly /\ asm_call.env.logo_fails /\ ~asm_call.res.raised

SampleFixture ==
    [client_name |-> <<"John Smith">>,
     client_address |-> <<"123 Main Street", "\n", "Anytown, ST 12345", "\n", "United States">>,
     agreement_amount |-> 5000 * 100,
     notes_terms |-> SampleNotes]

\* C5: every press of Load Sample Data leaves the fixture in the four input
\* fields of the run that follows, whatever the fields held before.
C5_LoadSampleYieldsFixture == sample_pressed => widget_value = SampleFixture

\* C5, the case that does work: the first press of a session, which changes
\* the value= of the four widgets
C5_FirstLoadYieldsFixture ==
    [][ClickLoadSample /\ "sample_client_name" \notin session_state.keys
          => widget_value' = SampleFixture]_vars

\* C5 witness: the memo is loaded and a field shows something else
C5_Witness ==
    /\ "sample_client_name" \in session_state.keys
    /\ widget_value.client_name = Alice

\* C6: no call of generate_pdf returns a file name that an earlier call
\* returned.
C6_DistinctFileNames == fresh

\* C6 witness: two calls returned two different names
C6_Witness == Cardinality(returned) = 2

\* C7: on valid field values, with nothing failing around it, generate_pdf
\* returns and the file is written, whatever the non-empty notes are.
C7_ValidInputsProduceFile ==
    /\ asm_call.called
    /\ asm_call.env = NoFault
    /\ asm_in.client_name # << >>
    /\ asm_in.client_address # << >>
    /\ asm_in.agreement_amount > 0
    /\ asm_in.notes_terms # << >>
    => ~asm_call.res.raised /\ asm_call.res.written

\* C7 witness: notes with balanced markup are accepted
C7_Witness ==
    /\ asm_call.called
    /\ asm_in.notes_terms = BoldNotes
    /\ asm_call.res.written

AgreementTableOf(story) ==
    CHOOSE b \in {story[i] : i \in 1..Len(story)} :
        b.kind = "Table" /\ b.style = "agreement"

SignatureTableOf(story) ==
    CHOOSE b \in {story[i] : i \in 1..Len(story)} :
        b.kind = "Table" /\ b.style = "signature"

QrImageOf(story) ==
    CHOOSE b \in {story[i] : i \in 1..Len(story)} : IsQrImage(b)

\* the identifier inside the picture text of a QR image: the pieces after
\* "qr: " and "Agreement ID: ", up to the line break
QrIdentifierOf(image) == SubSeq(image.what, 3, 2 + 1 + HexPrefixLen)

\* C8: in one call the identifier of the metadata table is made from the
\* second draw and the identifier in the QR text from the third, neither from
\* the draw of the file name.
C8_IdsFromSeparateDraws ==
    AsmReturned =>
        /\ asm_call.res.filename =
              <<"agreement_">> \o SubSeq(asm_call.rnd[1], 1, 8)
                  \o <<"_">> \o StrftimeStamp(asm_call.t) \o <<".pdf">>
        /\ AgreementTableOf(asm_call.res.story).rows[5] =
              <<"Agreement ID:", <<"AGR-">> \o Upper(SubSeq(asm_call.rnd[2], 1, 8))>>
        /\ ~asm_call.env.qr_fails =>
              QrImageOf(asm_call.res.story).what =
                  <<"qr: ", "Agreement ID: ", "AGR-">>
                      \o Upper(SubSeq(asm_call.rnd[3], 1, 8))
                      \o <<"\n", "Client: ">> \o asm_in.client_name
                      \o <<"\n", "Amount: ", "$">>
                      \o FormatAmount(asm_in.agreement_amount)

\* C8 witness: a call whose story carries two different identifiers
C8_Witness ==
    /\ AsmReturned
    /\ ~asm_call.env.qr_fails
    /\ QrIdentifierOf(QrImageOf(asm_call.res.story))
         # AgreementTableOf(asm_call.res.story).rows[5][2]
    /\ asm_call.rnd[1] # asm_call.rnd[2]

\* C9: run on the script's field values, at the same second, in the same
\* environment and with the script's draw equal to the app's draw for the
\* metadata table, generate_pdf and generate_sample_pdf build the same story.
C9_ScriptBuildsSameStory ==
    /\ asm_call.called /\ ~asm_call.res.raised
    /\ script_call.called /\ ~script_call.res.raised
    /\ asm_in = ScriptInputs
    /\ asm_call.t = script_call.t
    /\ asm_call.env = script_call.env
    /\ asm_call.rnd[2] = script_call.u
    => asm_call.res.story = script_call.res.story

\* C9 witness: the two stories are the same when the app's third draw gives
\* the identifier of its second
C9_Witness ==
    /\ asm_call.called /\ ~asm_call.res.raised
    /\ script_call.called /\ ~script_call.res.raised
    /\ asm_call.res.story = script_call.res.story
    /\ asm_call.rnd[3] # asm_call.rnd[2]

\* C10: the story of a call is the story of the same call made without a
\* signature, and the cell beside "Client Signature:" is empty.
C10_SignatureNeverRendered ==
    AsmReturned =>
        /\ asm_call.res.story =
              Story(asm_in.client_name, asm_in.client_address,
                    asm_in.agreement_amount, asm_in.notes_terms, None,
                    asm_call.rnd, asm_call.t, asm_call.env)
        /\ SignatureTableOf(asm_call.res.story).rows[1] = <<"Client Signature:", << >> >>

\* C10 witness: a call that was given a signature returned
C10_Witness == AsmReturned /\ asm_in.signature_data \in {DrawnPixels, UploadedImage}

IsDigit(c) == \E d \in 1..Len(DigitChar) : DigitChar[d] = c

DigitValue(c) == (CHOOSE d \in 1..Len(DigitChar) : DigitChar[d] = c) - 1

\* the number a sequence of decimal digits denotes
RECURSIVE DigitsValue(_)
DigitsValue(s) ==
    IF s = << >> THEN 0
    ELSE DigitsValue(SubSeq(s, 1, Len(s) - 1)) * 10 + DigitValue(s[Len(s)])

\* text is '$', then the whole part of the amount in groups of three digits
\* parted by ',' and without leading zeros, then '.', then two digits; and
\* the digits read back give the amount in cents
IsCurrencyOf(text, cents) ==
    /\ Len(text) >= 5
    /\ text[1] = "$"
    /\ text[Len(text) - 2] = "."
    /\ LET whole == SubSeq(text, 2, Len(text) - 3)
           frac == SubSeq(text, Len(text) - 1, Len(text))
       IN  /\ \A i \in 1..Len(frac) : IsDigit(frac[i])
           /\ \A i \in 1..Len(whole) :
                 IF (Len(whole) - i + 1) % 4 = 0 THEN whole[i] = ","
                 ELSE IsDigit(whole[i])
           /\ whole[1] # ","
           /\ whole[1] = "0" => Len(whole) = 1
           /\ DigitsValue(SelectSeq(whole, IsDigit)) * 100 + DigitsValue(frac)
                 = cents

\* the text after "Amount: " in the picture text of a QR image
QrAmountOf(image) ==
    LET i == CHOOSE k \in 1..Len(image.what) : image.what[k] = "Amount: "
    IN  SubSeq(image.what, i + 1, Len(image.what))

\* C11: in every call that returns, the amount cell of the metadata table is
\* the amount written as '$', thousands separators and exactly two decimal
\* places, and the amount in the QR text of the call is the same string.
C11_AmountIsCurrencyText ==
    AsmReturned =>
        /\ AgreementTableOf(asm_call.res.story).rows[4][1] = "Agreement Amount:"
        /\ IsCurrencyOf(AgreementTableOf(asm_call.res.story).rows[4][2],
                        asm_in.agreement_amount)
        /\ asm_in.agreement_amount = SampleAmount =>
              AgreementTableOf(asm_call.res.story).rows[4][2]
                  = <<"$", "5", ",", "0", "0", "0", ".", "0", "0">>
        /\ ~asm_call.env.qr_fails =>
              QrAmountOf(QrImageOf(asm_call.res.story))
                  = AgreementTableOf(asm_call.res.story).rows[4][2]

\* C11 witness: a call on an amount of a million or more, with cents,
\* returned with its QR image
C11_Witness ==
    /\ AsmReturned
    /\ ~asm_call.env.qr_fails
    /\ asm_in.agreement_amount = 1234567 * 100 + 89
    /\ QrAmountOf(QrImageOf(asm_call.res.story))
         = <<"$", "1", ",", "2", "3", "4", ",", "5", "6", "7", ".", "8", "9">>

\* C11 witness: the spec's example
C11_WitnessSample ==
    /\ AsmReturned
    /\ AgreementTableOf(asm_call.res.story).rows[4]
         = <<"Agreement Amount:", <<"$", "5", ",", "0", "0", "0", ".", "0", "0">> >>

\* C12: at the end of every run of main() the "PDFs Generated" metric shows
\* the session's pdf_count, the run in which a generation has just
\* succeeded included.
C12_MetricShowsCount == view.metric = session_state.pdf_count

\* C12 witness: the run in which a generation has just succeeded
C12_Witness ==
    /\ invoked.called
    /\ view.success_file # None
    /\ view.download # None
    /\ session_state.pdf_count = 1

\* C12, what does hold: the metric shows the counter as it stood when the
\* sidebar was drawn, one less than pdf_count in a run whose generate_pdf
\* call returned, and the next run shows the counter
C12_MetricShowsCountAtSidebar ==
    view.metric = IF invoked.called /\ view.success_file # None
                  THEN session_state.pdf_count - 1
                  ELSE session_state.pdf_count

\* the run of main() that gave the state, made again with both boxes checked
RunWithBoxesChecked ==
    Main([session_state EXCEPT !.pdf_count = view.metric], widget_default,
         widget_value, signature_option, signature_input, TRUE, TRUE,
         invoked.called,
         IF invoked.called THEN invoked.rnd ELSE <<UuidA, UuidA, UuidA>>,
         now,
         IF invoked.called THEN invoked.env ELSE CalmEnv)

HasBlock(story, Test(_)) == \E i \in 1..Len(story) : Test(story[i])

\* C13: whatever the two sidebar checkboxes hold, generate_pdf is invoked
\* with the values of the four fields and the signature, the run ends as the
\* same run with both boxes checked ends, and the document offered for
\* download is the story generate_pdf builds from those arguments, with the
\* logo and the QR image unless building that image failed.
C13_CheckboxesHaveNoEffect ==
    /\ \A run \in {RunWithBoxesChecked} :
          /\ view = run.view
          /\ invoked = run.invoked
          /\ session_state = run.session_state
          /\ widget_value = run.widget_value
    /\ invoked.called =>
          /\ invoked.client_name = widget_value.client_name
          /\ invoked.client_address = widget_value.client_address
          /\ invoked.agreement_amount = widget_value.agreement_amount
          /\ invoked.notes_terms = widget_value.notes_terms
          /\ invoked.signature_data = SignatureData(signature_option, signature_input)
          /\ view.download # None =>
                /\ view.pdf_data = InvokedResult.story
                /\ ~invoked.env.logo_fails => HasBlock(view.pdf_data, IsLogoImage)
                /\ ~invoked.env.qr_fails => HasBlock(view.pdf_data, IsQrImage)

\* C13 witness: both boxes are unchecked and the document offered for
\* download has the logo and the QR image
C13_Witness ==
    /\ ~sidebar.include_qr
    /\ ~sidebar.include_logo
    /\ invoked.called
    /\ view.download # None
    /\ HasBlock(view.pdf_data, IsLogoImage)
    /\ HasBlock(view.pdf_data, IsQrImage)

=============================================================================
